---- MODULE Spec2Model ----
(***************************************************************************)
(* Stripe -> Infakt invoice transfer: the time-range helpers and mappers   *)
(* of utils.py, the paginated fetch of stripe_client.py, the submitter of  *)
(* infakt_client.py, and the transformer and orchestrator loop of main.py. *)
(*                                                                         *)
(* Python values.  A value that may be None is carried wrapped: None is    *)
(* <<>> and a value v is <<v>>.  A dict is a function from its keys (an    *)
(* absent key is outside the DOMAIN) to wrapped values.  Strings the code  *)
(* splits or case-converts are sequences of one-character strings; strings *)
(* it only compares or passes along are TLA+ strings.  A call's outcome is *)
(* [kind |-> "return", value |-> v] or [kind |-> "raise", exc |-> name].   *)
(***************************************************************************)
EXTENDS Integers, Sequences, FiniteSets, TLC

None == <<>>
Some(v) == <<v>>
Val(o) == o[1]

\* dict.get(k) and dict.get(k, default)
Get(d, k) == IF k \in DOMAIN d THEN d[k] ELSE None
GetD(d, k, default) == IF k \in DOMAIN d THEN d[k] ELSE default

\* Python truthiness of an optional int, an optional TLA+-string text, and an
\* optional sequence-like value (character string, list, dict).
TruthyInt(o) == o # None /\ Val(o) # 0
TruthyText(o) == o # None /\ Val(o) # ""
Truthy(o) == o # None /\ Val(o) # <<>>

\* {k: v for k, v in d.items() if v is not None}
DropNone(d) == [k \in {j \in DOMAIN d : d[j] # None} |-> d[k]]

Return(v) == [kind |-> "return", value |-> v]
Raise(e) == [kind |-> "raise", exc |-> e]

\* --------------------------------------------------------------- strings

UpperLetters == <<"A","B","C","D","E","F","G","H","I","J","K","L","M",
                  "N","O","P","Q","R","S","T","U","V","W","X","Y","Z">>
LowerLetters == <<"a","b","c","d","e","f","g","h","i","j","k","l","m",
                  "n","o","p","q","r","s","t","u","v","w","x","y","z">>

LowerChar(c) ==
    IF \E i \in 1..26 : UpperLetters[i] = c
    THEN LowerLetters[CHOOSE i \in 1..26 : UpperLetters[i] = c]
    ELSE c
UpperChar(c) ==
    IF \E i \in 1..26 : LowerLetters[i] = c
    THEN UpperLetters[CHOOSE i \in 1..26 : LowerLetters[i] = c]
    ELSE c

\* str.lower() and str.upper()
Lower(s) == [i \in 1..Len(s) |-> LowerChar(s[i])]
Upper(s) == [i \in 1..Len(s) |-> UpperChar(s[i])]

\* A variant that splits at every space, as str.split(' ') does
RECURSIVE SplitAllSpaces(_)
SplitAllSpaces(s) ==
    IF \E i \in 1..Len(s) : s[i] = " "
    THEN LET p == CHOOSE i \in 1..Len(s) :
                     s[i] = " " /\ \A j \in 1..(i - 1) : s[j] # " "
         IN  << SubSeq(s, 1, p - 1) >> \o SplitAllSpaces(SubSeq(s, p + 1, Len(s)))
    ELSE << s >>

\* str.split(' ', 1): at most one split, at the first space
SplitFirstSpace(s) ==
    IF \E i \in 1..Len(s) : s[i] = " "
    THEN LET p == CHOOSE i \in 1..Len(s) :
                     s[i] = " " /\ \A j \in 1..(i - 1) : s[j] # " "
         IN  << SubSeq(s, 1, p - 1), SubSeq(s, p + 1, Len(s)) >>
    ELSE << s >>

\* ----------------------------------------------------------------- dates

SecondsPerDay == 86400

\* Days since 1970-01-01 of a proleptic Gregorian date (datetime arithmetic).
DaysFromCivil(y, m, d) ==
    LET yy  == IF m <= 2 THEN y - 1 ELSE y
        era == yy \div 400
        yoe == yy - era * 400
        mp  == IF m > 2 THEN m - 3 ELSE m + 9
        doy == (153 * mp + 2) \div 5 + d - 1
        doe == yoe * 365 + yoe \div 4 - yoe \div 100 + doy
    IN  era * 146097 + doe - 719468

\* The date <<year, month, day>> of a day number (datetime.fromtimestamp).
CivilFromDays(z0) ==
    LET z   == z0 + 719468
        era == z \div 146097
        doe == z - era * 146097
        yoe == (doe - doe \div 1460 + doe \div 36524 - doe \div 146096) \div 365
        doy == doe - (365 * yoe + yoe \div 4 - yoe \div 100)
        mp  == (5 * doy + 2) \div 153
        d   == doy - (153 * mp + 2) \div 5 + 1
        m   == IF mp < 10 THEN mp + 3 ELSE mp - 9
        y   == yoe + era * 400 + (IF m <= 2 THEN 1 ELSE 0)
    IN  << y, m, d >>

DigitChars == <<"0","1","2","3","4","5","6","7","8","9">>
Digit(n) == DigitChars[(n % 10) + 1]

\* strftime('%Y-%m-%d')
FormatDate(ymd) ==
    << Digit(ymd[1] \div 1000), Digit(ymd[1] \div 100), Digit(ymd[1] \div 10),
       Digit(ymd[1]), "-", Digit(ymd[2] \div 10), Digit(ymd[2]), "-",
       Digit(ymd[3] \div 10), Digit(ymd[3]) >>

\* utils.get_month_timestamps
get_month_timestamps(year, month) ==
    LET start_timestamp == DaysFromCivil(year, month, 1) * SecondsPerDay
        end_timestamp ==
            IF month = 12
            THEN DaysFromCivil(year + 1, 1, 1) * SecondsPerDay - 1
            ELSE DaysFromCivil(year, month + 1, 1) * SecondsPerDay - 1
    IN  << start_timestamp, end_timestamp >>

\* utils.timestamp_to_infakt_date
timestamp_to_infakt_date(timestamp) ==
    IF timestamp = None
    THEN None
    ELSE Some(FormatDate(CivilFromDays(Val(timestamp) \div SecondsPerDay)))

\* --------------------------------------------------------------- mappers

\* utils.map_stripe_tax_rate_to_infakt_symbol: a non-null percentage falls off
\* the end of the function, which returns None.
map_stripe_tax_rate_to_infakt_symbol(percentage) ==
    IF percentage = None THEN Some("zw") ELSE None

\* utils.map_stripe_payment_method
map_stripe_payment_method(stripe_invoice) ==
    IF TruthyText(Get(stripe_invoice, "payment_intent"))
       \/ TruthyText(Get(stripe_invoice, "charge"))
    THEN "card"
    ELSE "other"

\* ------------------------------------------------------ client classifier

\* utils.get_client_details.  customer_data is None or Some(dict); tax_code is
\* None or Some(text).
get_client_details(customer_data, tax_code) ==
    IF ~Truthy(customer_data)
    THEN Return(<<>>)
    ELSE
    LET c == Val(customer_data)
        address == GetD(c, "address", Some(<<>>))
    IN  IF address = None
        THEN Raise("AttributeError")
        ELSE
        LET details == [client_street    |-> Get(Val(address), "line1"),
                        client_city      |-> Get(Val(address), "city"),
                        client_post_code |-> Get(Val(address), "postal_code"),
                        client_country   |-> Get(Val(address), "country")]
            name == Get(c, "name")
            parts == SplitFirstSpace(Val(name))
            filled ==
                IF TruthyText(tax_code)
                THEN [client_tax_code |-> tax_code,
                      client_company_name |-> name,
                      client_business_activity_kind |-> Some("other_business")]
                     @@ details
                ELSE IF Truthy(name)
                THEN IF Len(parts) = 2
                     THEN [client_first_name |-> Some(parts[1]),
                           client_last_name |-> Some(parts[2]),
                           client_business_activity_kind |-> Some("private_person")]
                          @@ details
                     ELSE [client_company_name |-> name,
                           client_business_activity_kind |-> Some("other_business")]
                          @@ details
                ELSE details
        IN  Return(DropNone(filled))

\* ------------------------------------------------------------ transformer

\* Variant: the quotient rounded down (a // b)
TruncDiv_Floor(a, b) ==
    IF b > 0 THEN a \div b ELSE (-a) \div (-b)

\* int(a / b) for b # 0: true division, then truncation toward zero
TruncDiv(a, b) ==
    LET aa == IF a < 0 THEN -a ELSE a
        bb == IF b < 0 THEN -b ELSE b
    IN  IF (a < 0) = (b < 0) THEN aa \div bb ELSE -(aa \div bb)

\* main.py 104-117: the scan over the customer tax-identifier records, from
\* record i on, with nip the value kept so far.
RECURSIVE ScanTaxIds(_, _, _)
ScanTaxIds(customer_tax_ids, i, nip) ==
    IF i > Len(customer_tax_ids)
    THEN nip
    ELSE LET tax_id_obj == customer_tax_ids[i]
             value == Get(tax_id_obj, "value")
         IN  IF TruthyText(value)
             THEN IF Get(tax_id_obj, "type") = Some("eu_vat")
                  THEN value
                  ELSE ScanTaxIds(customer_tax_ids, i + 1, value)
             ELSE ScanTaxIds(customer_tax_ids, i + 1, nip)

ExtractNip(customer_tax_ids) == ScanTaxIds(customer_tax_ids, 1, None)

\* sum(t.get('amount', 0) for t in tax_amounts): None when an amount is null
\* (the addition raises TypeError), else Some(total).
RECURSIVE SumTaxAmounts(_, _, _)
SumTaxAmounts(tax_amounts, i, acc) ==
    IF i > Len(tax_amounts)
    THEN Some(acc)
    ELSE LET a == GetD(tax_amounts[i], "amount", Some(0))
         IN  IF a = None
             THEN None
             ELSE SumTaxAmounts(tax_amounts, i + 1, acc + Val(a))

\* The tax_percentage of a line item (main.py 52-55)
TaxPercentage(item) ==
    IF Truthy(Get(item, "tax_rates"))
    THEN Get(Val(item["tax_rates"])[1], "percentage")
    ELSE None

\* The unit_net_price expression (main.py 70); amount is present and an int
\* whenever quantity is truthy here.
UnitNetPrice(item) ==
    IF TruthyInt(Get(item, "quantity"))
    THEN Some(TruncDiv(Val(item["amount"]), Val(item["quantity"])))
    ELSE Get(item, "amount")

\* The gross_price expression (main.py 68), for an amount that is not null
GrossPrice(item, tax_amount_total) ==
    Val(GetD(item, "amount", Some(0))) + tax_amount_total

\* main.py 51-88: the service record of one line item, or the exception that
\* building it raises.
ServiceOf(item) ==
    LET tax_percentage == TaxPercentage(item)
        tax_amounts == GetD(item, "tax_amounts", Some(<<>>))
        tax_amount_total == SumTaxAmounts(Val(tax_amounts), 1, 0)
        price == GetD(item, "price", Some(<<>>))
        infakt_tax_symbol == map_stripe_tax_rate_to_infakt_symbol(tax_percentage)
        service ==
            [name |-> GetD(item, "description", Some("N/A")),
             quantity |-> GetD(item, "quantity", Some(1)),
             unit |-> GetD(Val(price), "unit_label", Some("szt.")),
             net_price |-> Get(item, "amount"),
             tax_price |-> tax_amount_total,
             gross_price |-> Some(GrossPrice(item, Val(tax_amount_total))),
             unit_net_price |-> UnitNetPrice(item),
             flat_rate_tax_symbol |-> Some("12")]
        with_symbol ==
            IF TruthyText(infakt_tax_symbol)
            THEN [tax_symbol |-> infakt_tax_symbol] @@ service
            ELSE service
    IN  IF tax_amounts = None THEN Raise("TypeError")
        ELSE IF tax_amount_total = None THEN Raise("TypeError")
        ELSE IF price = None THEN Raise("AttributeError")
        ELSE IF GetD(item, "amount", Some(0)) = None THEN Raise("TypeError")
        ELSE IF TruthyInt(Get(item, "quantity")) /\ "amount" \notin DOMAIN item
             THEN Raise("KeyError")
        ELSE Return(DropNone(with_symbol))

\* main.py 46-88: the loop over the line items, from item i on, with
\* infakt_services the records appended so far.
RECURSIVE BuildServices(_, _, _)
BuildServices(data, i, infakt_services) ==
    IF i > Len(data)
    THEN Return(infakt_services)
    ELSE IF Get(data[i], "object") # Some("line_item")
    THEN BuildServices(data, i + 1, infakt_services)
    ELSE LET s == ServiceOf(data[i])
         IN  IF s.kind = "raise"
             THEN s
             ELSE BuildServices(data, i + 1, Append(infakt_services, s.value))

DefaultCurrency == <<"P", "L", "N">>

\* main.py 127-151: the payload before its null fields are dropped
Payload(stripe_invoice, infakt_services, paid_date_str, sale_date_str, client_data) ==
    client_data @@
    [invoice_date |-> paid_date_str,
     sale_date |-> sale_date_str,
     paid_date |-> paid_date_str,
     payment_date |-> paid_date_str,
     currency |-> Some(Upper(Val(GetD(stripe_invoice, "currency", Some(DefaultCurrency))))),
     status |-> Some("paid"),
     kind |-> Some("vat"),
     payment_method |-> Some(map_stripe_payment_method(stripe_invoice)),
     number |-> Get(stripe_invoice, "number"),
     net_price |-> Get(stripe_invoice, "subtotal"),
     tax_price |-> Get(stripe_invoice, "tax"),
     gross_price |-> Get(stripe_invoice, "total"),
     paid_price |-> Get(stripe_invoice, "amount_paid"),
     left_to_pay |-> Some(0),
     sale_type |-> Some("service"),
     services |-> Some(infakt_services)]

\* main.py 156-167: the validation of the cleaned payload
Validate(cleaned_payload) ==
    IF ~Truthy(Get(cleaned_payload, "services")) THEN None
    ELSE IF ~Truthy(Get(cleaned_payload, "invoice_date")) THEN None
    ELSE Some(cleaned_payload)

\* main.transform_stripe_to_infakt: Return(None), Return(Some(payload)) or the
\* exception raised on the way.
transform_stripe_to_infakt(stripe_invoice) ==
    IF GetD(stripe_invoice, "total", Some(0)) = Some(0)
    THEN Return(None)
    ELSE IF ~Truthy(Get(stripe_invoice, "lines"))
            \/ ~Truthy(Get(Val(stripe_invoice["lines"]), "data"))
    THEN Return(None)
    ELSE
    LET built == BuildServices(Val(Val(stripe_invoice["lines"])["data"]), 1, <<>>)
        status_transitions == GetD(stripe_invoice, "status_transitions", Some(<<>>))
        paid_date_str == timestamp_to_infakt_date(Get(Val(status_transitions), "paid_at"))
        created_str == timestamp_to_infakt_date(Get(stripe_invoice, "created"))
        sale_date_str == IF Truthy(paid_date_str) THEN paid_date_str ELSE created_str
        customer_tax_ids == GetD(stripe_invoice, "customer_tax_ids", Some(<<>>))
        nip == ExtractNip(Val(customer_tax_ids))
        client_data == get_client_details(Get(stripe_invoice, "customer"), nip)
    IN  IF built.kind = "raise" THEN built
        ELSE IF built.value = <<>> THEN Return(None)
        ELSE IF status_transitions = None THEN Raise("AttributeError")
        ELSE IF customer_tax_ids = None THEN Raise("TypeError")
        ELSE IF client_data.kind = "raise" THEN client_data
        ELSE IF GetD(stripe_invoice, "currency", Some(DefaultCurrency)) = None
             THEN Raise("AttributeError")
        ELSE Return(Validate(DropNone(
                 Payload(stripe_invoice, built.value, paid_date_str,
                         sale_date_str, client_data.value))))

\* -------------------------------------------------------------- submitter

\* infakt_client.InfaktClient.create_invoice_async, given what the request
\* met: a network failure, or a response with a status code and a body that
\* response.json() parses to a dict, to a non-dict value, or not at all.
\* raise_for_status() raises for the statuses 400 to 599 only.
\* Returns None or Some(response_data).
create_invoice_async(response) ==
    IF response.network_error THEN None
    ELSE IF 400 <= response.status_code /\ response.status_code < 600 THEN None
    ELSE IF response.body.kind # "dict" THEN None
    ELSE Some(response.body.data)

\* A variant that accepts any response data, with or without a reference
SubmissionAccepted_AnyResponse(result) == result # None

\* main.py 256: result and result.get('invoice_task_reference_number')
SubmissionAccepted(result) ==
    Truthy(result) /\ TruthyText(Get(Val(result), "invoice_task_reference_number"))

\* ---------------------------------------------------------------- fetcher

limit == 100

Min(a, b) == IF a < b THEN a ELSE b

\* stripe.Invoice.list(status='paid', limit=limit, starting_after=...): the
\* service holds the paid invoices as the sequence upstream, resolves a cursor
\* to the position of the invoice with that id, and returns the next
\* Min(limit, page_cap) invoices.
ListInvoices(upstream, page_cap, starting_after) ==
    LET size == Min(limit, page_cap)
        pos == IF starting_after = None
               THEN 0
               ELSE CHOOSE i \in 1..Len(upstream) :
                        Get(upstream[i], "id") = starting_after
        last == Min(pos + size, Len(upstream))
    IN  [data |-> SubSeq(upstream, pos + 1, last),
         has_more |-> last < Len(upstream)]

\* A variant that starts over from the first page after a rate-limit signal
CursorResetOnRateLimit(starting_after) == None

\* stripe_client.py 49-53: the cursor with which the request is repeated after
\* a rate-limit signal
CursorOnRateLimit(starting_after) == starting_after

\* A variant that swallows the error and keeps what was collected
OnStripeError_Swallow(all_paid_invoices_raw) == Return(all_paid_invoices_raw)

\* stripe_client.py 54-57: a non-rate-limit error is logged and re-raised
OnStripeError(all_paid_invoices_raw) == Raise("StripeError")

\* A variant whose range excludes its two ends
PaidWithin_Exclusive(paid_at, start_timestamp, end_timestamp) ==
    /\ TruthyInt(paid_at)
    /\ start_timestamp < Val(paid_at)
    /\ Val(paid_at) < end_timestamp

\* stripe_client.py 69: paid_at and start_timestamp <= paid_at <= end_timestamp
PaidWithin(paid_at, start_timestamp, end_timestamp) ==
    /\ TruthyInt(paid_at)
    /\ start_timestamp <= Val(paid_at)
    /\ Val(paid_at) <= end_timestamp

\* stripe_client.py 64-75: the client-side filter, from invoice i on.  Each
\* StripeObject is read as the dict it converts to.
RECURSIVE FilterPaid(_, _, _, _, _)
FilterPaid(raw, i, start_timestamp, end_timestamp, filtered_invoices) ==
    IF i > Len(raw)
    THEN Return(filtered_invoices)
    ELSE LET inv == raw[i]
             status_transitions == GetD(inv, "status_transitions", Some(<<>>))
             paid_at == Get(Val(status_transitions), "paid_at")
         IN  IF status_transitions = None
             THEN Raise("AttributeError")
             ELSE IF PaidWithin(paid_at, start_timestamp, end_timestamp)
             THEN FilterPaid(raw, i + 1, start_timestamp, end_timestamp,
                             Append(filtered_invoices, inv))
             ELSE FilterPaid(raw, i + 1, start_timestamp, end_timestamp,
                             filtered_invoices)

\* ------------------------------------------------------------------ state

VARIABLES
    pc,                     \* position of the run: "fetch", "filter", "loop",
                            \* "confirm", "submit", "done", "exited"; "idle"
                            \* in the specifications of the pure functions
    upstream,               \* the paid invoices held by the source service
    page_cap,               \* the most invoices the service returns per page
    rate_limited,           \* the cursors of the requests that met a
                            \* rate-limit signal, in order
    stripe_error,           \* whether a request met a non-rate-limit error
    start_ts, end_ts,       \* the target month's range
    starting_after,         \* get_paid_invoices: the cursor
    all_paid_invoices_raw,  \* get_paid_invoices: the invoices collected
    stripe_invoices,        \* the fetched and filtered invoices
    idx,                    \* the loop's position in stripe_invoices
    success_count, failure_count, skipped_by_user_count,
    processed_stripe_ids,
    infakt_payload,         \* the payload awaiting confirmation or submission
    console_input,          \* the line input() read for the current prompt
    user_confirm,           \* that line, lowercased
    exit_status,            \* None while running, else Some(status)
    transform_calls,        \* ids passed to transform_stripe_to_infakt
    prompt_calls,           \* ids a confirmation prompt was shown for
    submit_calls,           \* ids a creation request was sent for
    infakt_response,        \* what the last creation request met
    customer_tax_ids, nip,  \* the tax-identifier scan: input and result
    customer_data, tax_code, client_details,  \* get_client_details
    stripe_invoice, transformed,   \* transform_stripe_to_infakt
    called                  \* whether the pure function has been applied

fetch_vars == << upstream, page_cap, rate_limited, stripe_error, start_ts,
                 end_ts, starting_after, all_paid_invoices_raw >>
loop_vars == << stripe_invoices, idx, success_count, failure_count,
                skipped_by_user_count, processed_stripe_ids, infakt_payload,
                console_input, user_confirm, transform_calls, prompt_calls,
                submit_calls, infakt_response >>
pure_vars == << customer_tax_ids, nip, customer_data, tax_code, client_details,
                stripe_invoice, transformed, called >>
vars == << pc, exit_status, fetch_vars, loop_vars, pure_vars >>

\* ----------------------------------------------------------------- bounds

MaxInvoices == 3
ServerPageCap == 2
MaxRateLimits == 2

\* ------------------------------------------------------------ sample data

Chars_JanKowalski == <<"J","a","n"," ","K","o","w","a","l","s","k","i">>
Chars_AcmeCorp == <<"A","c","m","e"," ","C","o","r","p">>

TARGET_YEAR == 2024
TARGET_MONTH == 12

\* Noon of the target month's 15th day, and the second before the month starts
PaidInMonth ==
    get_month_timestamps(TARGET_YEAR, TARGET_MONTH)[1] + 14 * SecondsPerDay + 43200
PaidBeforeMonth == get_month_timestamps(TARGET_YEAR, TARGET_MONTH)[1] - 1

PlanItem ==
    [object |-> Some("line_item"), description |-> Some("Plan"),
     amount |-> Some(4000), quantity |-> Some(2),
     tax_amounts |-> Some(<< [amount |-> Some(800)] >>)]

BaseInvoice ==
    [total |-> Some(4800), subtotal |-> Some(4000), tax |-> Some(800),
     amount_paid |-> Some(4800), currency |-> Some(<<"p","l","n">>),
     created |-> Some(PaidBeforeMonth),
     lines |-> Some([data |-> Some(<< PlanItem >>)]),
     status_transitions |-> Some([paid_at |-> Some(PaidInMonth)]),
     customer |-> Some([name |-> Some(Chars_JanKowalski)])]

\* A private person's invoice, transformable
InvoicePerson == [id |-> Some("in_1")] @@ BaseInvoice
\* A company's invoice with an eu_vat identifier, transformable
InvoiceCompany ==
    [id |-> Some("in_2"),
     customer |-> Some([name |-> Some(Chars_AcmeCorp),
                        address |-> Some([city |-> Some("Warszawa")])]),
     customer_tax_ids |-> Some(<< [type |-> Some("eu_vat"),
                                   value |-> Some("PL1234567890")] >>)]
    @@ BaseInvoice
\* The id of InvoicePerson again, with a zero total
InvoiceZeroTotal == [id |-> Some("in_1"), total |-> Some(0)] @@ BaseInvoice
\* A customer whose address is null
InvoiceNullAddress ==
    [id |-> Some("in_3"),
     customer |-> Some([name |-> Some(Chars_AcmeCorp), address |-> None])]
    @@ BaseInvoice
\* No identifier
InvoiceNoId == BaseInvoice
\* Paid one second before the target month
InvoiceBeforeMonth ==
    [id |-> Some("in_2"),
     status_transitions |-> Some([paid_at |-> Some(PaidBeforeMonth)])]
    @@ BaseInvoice

SampleInvoices ==
    { InvoicePerson, InvoiceCompany, InvoiceZeroTotal, InvoiceNullAddress,
      InvoiceNoId, InvoiceBeforeMonth }

\* The sequences over S of length at most n
SeqUpTo(S, n) == UNION { [1..k -> S] : k \in 0..n }

\* The service resolves every cursor the fetch can send to one position: the
\* id of an invoice that ends a page is the id of no other invoice.
CursorsResolve(u, cap) ==
    \A p \in 1..Len(u) :
        (p % Min(limit, cap) = 0 /\ p < Len(u) /\ "id" \in DOMAIN u[p])
        => \A q \in 1..Len(u) : q # p => Get(u[q], "id") # u[p]["id"]

\* Lines read from the console
ConsoleLines == { <<"y">>, <<"Y">>, <<"y","e","s">>, <<"n">>, <<>>, <<" ","y">> }

JsonDict(d) == [kind |-> "dict", data |-> d]
InfaktResponses ==
    { [network_error |-> FALSE, status_code |-> 201,
       body |-> JsonDict([invoice_task_reference_number |-> Some("task-1")])],
      [network_error |-> FALSE, status_code |-> 201,
       body |-> JsonDict([status |-> Some("queued")])],
      [network_error |-> FALSE, status_code |-> 200, body |-> [kind |-> "invalid"]],
      [network_error |-> FALSE, status_code |-> 200, body |-> [kind |-> "list"]],
      [network_error |-> FALSE, status_code |-> 422,
       body |-> JsonDict([error |-> Some("invalid")])],
      [network_error |-> FALSE, status_code |-> 500,
       body |-> JsonDict([invoice_task_reference_number |-> Some("task-1")])],
      [network_error |-> FALSE, status_code |-> 302,
       body |-> JsonDict([invoice_task_reference_number |-> Some("task-1")])],
      [network_error |-> FALSE, status_code |-> 600,
       body |-> JsonDict([invoice_task_reference_number |-> Some("task-1")])],
      [network_error |-> TRUE, status_code |-> 0, body |-> [kind |-> "invalid"]] }

\* ------------------------------------------------------------------- run

PureIdle ==
    /\ customer_tax_ids = <<>> /\ nip = None
    /\ customer_data = None /\ tax_code = None /\ client_details = None
    /\ stripe_invoice = <<>> /\ transformed = None
    /\ called = FALSE

LoopIdle ==
    /\ stripe_invoices = <<>> /\ idx = 0
    /\ success_count = 0 /\ failure_count = 0 /\ skipped_by_user_count = 0
    /\ processed_stripe_ids = {}
    /\ infakt_payload = None /\ console_input = None /\ user_confirm = None
    /\ transform_calls = <<>> /\ prompt_calls = <<>> /\ submit_calls = <<>>
    /\ infakt_response = None

\* main.py 177-186: the clients are built, the range is computed and the
\* fetch is about to send its first request.
Init ==
    /\ pc = "fetch"
    /\ exit_status = None
    /\ page_cap \in 1..ServerPageCap
    /\ upstream \in SeqUpTo(SampleInvoices, MaxInvoices)
    /\ CursorsResolve(upstream, page_cap)
    /\ rate_limited = <<>>
    /\ stripe_error = FALSE
    /\ start_ts = get_month_timestamps(TARGET_YEAR, TARGET_MONTH)[1]
    /\ end_ts = get_month_timestamps(TARGET_YEAR, TARGET_MONTH)[2]
    /\ starting_after = None
    /\ all_paid_invoices_raw = <<>>
    /\ LoopIdle
    /\ PureIdle

\* main.py 284-286: an exception that reaches the top level ends the run
Abort ==
    /\ pc' = "exited"
    /\ exit_status' = Some(1)

\* stripe_client.py 22-47: a page request that is answered
FetchPage ==
    /\ pc = "fetch"
    /\ LET invoices == ListInvoices(upstream, page_cap, starting_after)
           n == Len(invoices.data)
       IN  IF invoices.data = <<>>
           THEN /\ pc' = "filter"
                /\ UNCHANGED << exit_status, starting_after, all_paid_invoices_raw >>
           ELSE IF ~invoices.has_more
           THEN /\ pc' = "filter"
                /\ all_paid_invoices_raw' = all_paid_invoices_raw \o invoices.data
                /\ UNCHANGED << exit_status, starting_after >>
           ELSE IF "id" \notin DOMAIN invoices.data[n]
           THEN /\ Abort
                /\ all_paid_invoices_raw' = all_paid_invoices_raw \o invoices.data
                /\ UNCHANGED starting_after
           ELSE /\ pc' = "fetch"
                /\ all_paid_invoices_raw' = all_paid_invoices_raw \o invoices.data
                /\ starting_after' = invoices.data[n]["id"]
                /\ UNCHANGED exit_status
    /\ UNCHANGED << upstream, page_cap, rate_limited, stripe_error, start_ts,
                    end_ts >>
    /\ UNCHANGED << loop_vars, pure_vars >>

\* stripe_client.py 49-53: a page request that meets a rate-limit signal
FetchRateLimited ==
    /\ pc = "fetch"
    /\ Len(rate_limited) < MaxRateLimits
    /\ rate_limited' = Append(rate_limited, starting_after)
    /\ starting_after' = CursorOnRateLimit(starting_after)
    /\ UNCHANGED << pc, exit_status, upstream, page_cap, stripe_error, start_ts,
                    end_ts, all_paid_invoices_raw >>
    /\ UNCHANGED << loop_vars, pure_vars >>

\* stripe_client.py 54-60: a page request that meets any other error
FetchFailed ==
    /\ pc = "fetch"
    /\ stripe_error' = TRUE
    /\ LET r == OnStripeError(all_paid_invoices_raw)
       IN  IF r.kind = "raise"
           THEN Abort
           ELSE pc' = "filter" /\ UNCHANGED exit_status
    /\ UNCHANGED << upstream, page_cap, rate_limited, start_ts, end_ts,
                    starting_after, all_paid_invoices_raw >>
    /\ UNCHANGED << loop_vars, pure_vars >>

\* stripe_client.py 62-75 and main.py 186-196: the filter, the return to the
\* orchestrator, and its exit when nothing is left
FilterAndReturn ==
    /\ pc = "filter"
    /\ LET r == FilterPaid(all_paid_invoices_raw, 1, start_ts, end_ts, <<>>)
       IN  IF r.kind = "raise"
           THEN Abort /\ UNCHANGED << stripe_invoices, idx >>
           ELSE IF r.value = <<>>
           THEN /\ pc' = "exited"
                /\ exit_status' = Some(0)
                /\ UNCHANGED << stripe_invoices, idx >>
           ELSE /\ pc' = "loop"
                /\ stripe_invoices' = r.value
                /\ idx' = 1
                /\ UNCHANGED exit_status
    /\ UNCHANGED << success_count, failure_count, skipped_by_user_count,
                    processed_stripe_ids, infakt_payload, console_input,
                    user_confirm, transform_calls, prompt_calls, submit_calls,
                    infakt_response >>
    /\ UNCHANGED << fetch_vars, pure_vars >>

\* main.py 205: stripe_id in processed_stripe_ids
AlreadyProcessed(stripe_id, processed) == stripe_id \in processed

\* A variant that forgets to record the id
MarkProcessed_Forget(processed, stripe_id) == processed

\* main.py 272: processed_stripe_ids.add(stripe_id)
MarkProcessed(processed, stripe_id) == processed \cup { stripe_id }

\* A variant that compares the line as typed
ReadConfirm_NoLower(line) == line

\* main.py 250: input(...).lower()
ReadConfirm(line) == Lower(line)

\* main.py 198-214 and 268-273: one invoice up to its confirmation prompt, or
\* to the end of its iteration when it is skipped or not transformable
ProcessInvoice ==
    /\ pc = "loop"
    /\ idx <= Len(stripe_invoices)
    /\ LET invoice_data == stripe_invoices[idx]
           stripe_id == Get(invoice_data, "id")
           r == transform_stripe_to_infakt(invoice_data)
       IN  IF ~TruthyText(stripe_id)
              \/ AlreadyProcessed(Val(stripe_id), processed_stripe_ids)
           THEN /\ idx' = idx + 1
                /\ UNCHANGED << pc, exit_status, failure_count,
                                processed_stripe_ids, infakt_payload,
                                transform_calls, prompt_calls >>
           ELSE /\ transform_calls' = Append(transform_calls, Val(stripe_id))
                /\ IF r.kind = "raise"
                   THEN /\ Abort
                        /\ UNCHANGED << idx, failure_count, processed_stripe_ids,
                                        infakt_payload, prompt_calls >>
                   ELSE IF Truthy(r.value)
                   THEN /\ pc' = "confirm"
                        /\ infakt_payload' = r.value
                        /\ prompt_calls' = Append(prompt_calls, Val(stripe_id))
                        /\ UNCHANGED << exit_status, idx, failure_count,
                                        processed_stripe_ids >>
                   ELSE /\ failure_count' = failure_count + 1
                        /\ processed_stripe_ids' =
                               MarkProcessed(processed_stripe_ids, Val(stripe_id))
                        /\ idx' = idx + 1
                        /\ infakt_payload' = None
                        /\ UNCHANGED << pc, exit_status, prompt_calls >>
    /\ UNCHANGED << stripe_invoices, success_count, skipped_by_user_count,
                    console_input, user_confirm, submit_calls, infakt_response >>
    /\ UNCHANGED << fetch_vars, pure_vars >>

\* A variant that counts a decline as a failure too
FailuresAfterDecline_Counted(failures) == failures + 1

\* main.py 262-266: a decline is tallied as user-skipped, not as a failure
FailuresAfterDecline(failures) == failures

\* main.py 250-252 and 262-273: the prompt is answered
Confirm(line) ==
    /\ pc = "confirm"
    /\ console_input' = Some(line)
    /\ user_confirm' = Some(ReadConfirm(line))
    /\ IF ReadConfirm(line) = <<"y">>
       THEN /\ pc' = "submit"
            /\ UNCHANGED << idx, skipped_by_user_count, failure_count,
                            processed_stripe_ids >>
       ELSE /\ pc' = "loop"
            /\ skipped_by_user_count' = skipped_by_user_count + 1
            /\ failure_count' = FailuresAfterDecline(failure_count)
            /\ processed_stripe_ids' =
                   MarkProcessed(processed_stripe_ids,
                                 Val(stripe_invoices[idx]["id"]))
            /\ idx' = idx + 1
    /\ UNCHANGED << exit_status, stripe_invoices, success_count,
                    infakt_payload, transform_calls, prompt_calls, submit_calls,
                    infakt_response >>
    /\ UNCHANGED << fetch_vars, pure_vars >>

\* main.py 255-261 and 272-273: the creation request is sent and tallied
Submit(response) ==
    /\ pc = "submit"
    /\ submit_calls' = Append(submit_calls, Val(stripe_invoices[idx]["id"]))
    /\ infakt_response' = Some(response)
    /\ LET result == create_invoice_async(response)
       IN  IF SubmissionAccepted(result)
           THEN /\ success_count' = success_count + 1
                /\ UNCHANGED failure_count
           ELSE /\ failure_count' = failure_count + 1
                /\ UNCHANGED success_count
    /\ processed_stripe_ids' =
           MarkProcessed(processed_stripe_ids, Val(stripe_invoices[idx]["id"]))
    /\ idx' = idx + 1
    /\ pc' = "loop"
    /\ UNCHANGED << exit_status, stripe_invoices, skipped_by_user_count,
                    infakt_payload, console_input, user_confirm,
                    transform_calls, prompt_calls >>
    /\ UNCHANGED << fetch_vars, pure_vars >>

\* main.py 275-282: the loop is over; the summary is logged and the run ends
Summary ==
    /\ pc = "loop"
    /\ idx > Len(stripe_invoices)
    /\ pc' = "done"
    /\ exit_status' = Some(0)
    /\ UNCHANGED << fetch_vars, loop_vars, pure_vars >>

Next ==
    \/ FetchPage
    \/ FetchRateLimited
    \/ FetchFailed
    \/ FilterAndReturn
    \/ ProcessInvoice
    \/ \E line \in ConsoleLines : Confirm(line)
    \/ \E response \in InfaktResponses : Submit(response)
    \/ Summary

Spec == Init /\ [][Next]_vars

\* ------------------------------------------- the pure functions, applied

RunIdle ==
    /\ pc = "idle" /\ exit_status = None
    /\ upstream = <<>> /\ page_cap = 1
    /\ rate_limited = <<>> /\ stripe_error = FALSE
    /\ start_ts = 0 /\ end_ts = 0
    /\ starting_after = None /\ all_paid_invoices_raw = <<>>
    /\ LoopIdle

run_vars == << pc, exit_status, fetch_vars, loop_vars >>

MaxTaxIds == 3
MaxNameLen == 5
MaxLines == 2

\* Tax-identifier records: a type, and a value that is null, empty or set
TaxIdRecords ==
    { [type |-> Some(t), value |-> v] :
        t \in { "eu_vat", "us_ein" },
        v \in { None, Some(""), Some("1"), Some("2"), Some("3") } }

InitTaxIds ==
    /\ RunIdle
    /\ customer_tax_ids \in SeqUpTo(TaxIdRecords, MaxTaxIds)
    /\ nip = None
    /\ customer_data = None /\ tax_code = None /\ client_details = None
    /\ stripe_invoice = <<>> /\ transformed = None
    /\ called = FALSE

\* main.py 104-117
ScanCustomerTaxIds ==
    /\ ~called
    /\ called' = TRUE
    /\ nip' = ExtractNip(customer_tax_ids)
    /\ UNCHANGED << run_vars, customer_tax_ids, customer_data, tax_code,
                    client_details, stripe_invoice, transformed >>

SpecTaxIds == InitTaxIds /\ [][ScanCustomerTaxIds]_vars

\* Customers: none, an empty record, or a record whose name is absent, null or
\* a text of at most MaxNameLen characters, and whose address is absent, null,
\* empty or filled.
NameChars == { "J", "K", " " }
FullAddress ==
    [line1 |-> Some("Prosta 1"), city |-> Some("Warszawa"),
     postal_code |-> Some("00-001"), country |-> Some("PL")]
NameFields ==
    { <<>>, [name |-> None] }
    \cup { [name |-> Some(n)] : n \in SeqUpTo(NameChars, MaxNameLen) }
AddressFields ==
    { <<>>, [address |-> None], [address |-> Some(<<>>)],
      [address |-> Some(FullAddress)] }
CustomerInputs ==
    { None } \cup { Some(n @@ a @@ [id |-> Some("cus_1")]) :
                        n \in NameFields, a \in AddressFields }
                \cup { Some(<<>>) }
TaxCodeInputs == { None, Some(""), Some("PL1234567890") }

InitClient ==
    /\ RunIdle
    /\ customer_data \in CustomerInputs
    /\ tax_code \in TaxCodeInputs
    /\ client_details = None
    /\ customer_tax_ids = <<>> /\ nip = None
    /\ stripe_invoice = <<>> /\ transformed = None
    /\ called = FALSE

\* utils.py 59-102
ClassifyClient ==
    /\ ~called
    /\ called' = TRUE
    /\ client_details' = Some(get_client_details(customer_data, tax_code))
    /\ UNCHANGED << run_vars, customer_tax_ids, nip, customer_data, tax_code,
                    stripe_invoice, transformed >>

SpecClient == InitClient /\ [][ClassifyClient]_vars

\* Line items
NoAmountItem ==
    [object |-> Some("line_item"), description |-> Some("Setup"),
     tax_amounts |-> Some(<< [amount |-> Some(800)] >>)]
NoAmountQuantityItem == [quantity |-> Some(1)] @@ NoAmountItem
NullAmountItem == [amount |-> None] @@ PlanItem
CreditItem ==
    [object |-> Some("line_item"), description |-> Some("Credit"),
     amount |-> Some(-1001), quantity |-> Some(2),
     tax_rates |-> Some(<< [percentage |-> Some(23)] >>)]
ZeroQuantityItem ==
    [object |-> Some("line_item"), amount |-> Some(500), quantity |-> Some(0),
     tax_amounts |-> Some(<< [amount |-> Some(100)], [amount |-> Some(15)] >>)]
OtherObjectItem == [object |-> Some("other")] @@ PlanItem
NullPriceItem == [price |-> None] @@ PlanItem
ItemInputs ==
    { PlanItem, NoAmountItem, NoAmountQuantityItem, NullAmountItem, CreditItem,
      ZeroQuantityItem, OtherObjectItem, NullPriceItem }

\* Invoices: each part absent, null or set
TotalFields == { <<>>, [total |-> Some(0)], [total |-> Some(4800)] }
LinesFields ==
    { <<>> } \cup { [lines |-> Some([data |-> Some(d)])] :
                       d \in SeqUpTo(ItemInputs, MaxLines) }
PaidFields ==
    { <<>>, [status_transitions |-> None],
      [status_transitions |-> Some([paid_at |-> Some(PaidInMonth)])] }
CustomerFields ==
    { <<>>, [customer |-> Some([name |-> Some(Chars_JanKowalski)])],
      [customer |-> Some([name |-> Some(Chars_AcmeCorp), address |-> None])] }
TaxIdFields ==
    { <<>>, [customer_tax_ids |-> None],
      [customer_tax_ids |->
          Some(<< [type |-> Some("us_ein"), value |-> Some("1")],
                  [type |-> Some("eu_vat"), value |-> Some("2")] >>)] }
InvoiceInputs ==
    { t @@ l @@ p @@ c @@ x @@
      [id |-> Some("in_1"), created |-> Some(PaidBeforeMonth),
       subtotal |-> Some(4000), currency |-> Some(<<"u","s","d">>)] :
        t \in TotalFields, l \in LinesFields, p \in PaidFields,
        c \in CustomerFields, x \in TaxIdFields }

InitTransform ==
    /\ RunIdle
    /\ stripe_invoice \in InvoiceInputs
    /\ transformed = None
    /\ customer_tax_ids = <<>> /\ nip = None
    /\ customer_data = None /\ tax_code = None /\ client_details = None
    /\ called = FALSE

\* main.py 32-167
Transform ==
    /\ ~called
    /\ called' = TRUE
    /\ transformed' = Some(transform_stripe_to_infakt(stripe_invoice))
    /\ UNCHANGED << run_vars, customer_tax_ids, nip, customer_data, tax_code,
                    client_details, stripe_invoice >>

SpecTransform == InitTransform /\ [][Transform]_vars

\* One line item with every amount and quantity: absent, null or an integer
MaxAmount == 7
MaxQuantity == 3

AmountFields ==
    { <<>>, [amount |-> None] }
      \cup { [amount |-> Some(a)] : a \in (-MaxAmount)..MaxAmount }
QuantityFields ==
    { <<>>, [quantity |-> None] }
      \cup { [quantity |-> Some(q)] : q \in (-MaxQuantity)..MaxQuantity }
LineItemInputs ==
    { a @@ q @@ [object |-> Some("line_item"), description |-> Some("Plan")] :
        a \in AmountFields, q \in QuantityFields }

InitLineItem ==
    /\ RunIdle
    /\ stripe_invoice \in
          { [lines |-> Some([data |-> Some(<< item >>)])] @@ InvoicePerson :
              item \in LineItemInputs }
    /\ transformed = None
    /\ customer_tax_ids = <<>> /\ nip = None
    /\ customer_data = None /\ tax_code = None /\ client_details = None
    /\ called = FALSE

SpecLineItem == InitLineItem /\ [][Transform]_vars

\* The client-side filter applied to what a completed fetch collected
MaxRaw == 3

\* An invoice with the given id and status_transitions field
PaidInvoice(id, fields) == [id |-> Some(id)] @@ fields @@ BaseInvoice
PaidAt(ts) == [status_transitions |-> Some([paid_at |-> Some(ts)])]

\* No status_transitions, a null one, a null paid_at, and paid_at around the
\* two ends of the range
FilterSamples ==
    { [id |-> Some("in_a"), total |-> Some(4800)],
      PaidInvoice("in_b", [status_transitions |-> None]),
      PaidInvoice("in_c", [status_transitions |-> Some([paid_at |-> None])]),
      PaidInvoice("in_d", PaidAt(PaidBeforeMonth)),
      PaidInvoice("in_e", PaidAt(get_month_timestamps(TARGET_YEAR, TARGET_MONTH)[1])),
      PaidInvoice("in_f", PaidAt(PaidInMonth)),
      PaidInvoice("in_g", PaidAt(get_month_timestamps(TARGET_YEAR, TARGET_MONTH)[2])),
      PaidInvoice("in_h", PaidAt(get_month_timestamps(TARGET_YEAR, TARGET_MONTH)[2] + 1)) }

\* stripe_client.py 62: the page loop has ended with the invoices collected
InitFilter ==
    /\ pc = "filter"
    /\ exit_status = None
    /\ page_cap = 1
    /\ all_paid_invoices_raw \in SeqUpTo(FilterSamples, MaxRaw)
    /\ upstream = all_paid_invoices_raw
    /\ rate_limited = <<>>
    /\ stripe_error = FALSE
    /\ start_ts = get_month_timestamps(TARGET_YEAR, TARGET_MONTH)[1]
    /\ end_ts = get_month_timestamps(TARGET_YEAR, TARGET_MONTH)[2]
    /\ starting_after = None
    /\ LoopIdle
    /\ PureIdle

SpecFilter == InitFilter /\ [][FilterAndReturn]_vars

\* ----------------------------------------------------------------- claims

NoDup(s) == \A i, j \in 1..Len(s) : i # j => s[i] # s[j]

tallies == << success_count, failure_count, skipped_by_user_count >>

\* The loop stands at an invoice whose identifier is new to this run
AtFreshInvoice ==
    /\ pc = "loop" /\ idx <= Len(stripe_invoices)
    /\ TruthyText(Get(stripe_invoices[idx], "id"))
    /\ Val(stripe_invoices[idx]["id"]) \notin processed_stripe_ids

\* The loop stands at an invoice whose identifier was already seen
AtSeenInvoice ==
    /\ pc = "loop" /\ idx <= Len(stripe_invoices)
    /\ TruthyText(Get(stripe_invoices[idx], "id"))
    /\ Val(stripe_invoices[idx]["id"]) \in processed_stripe_ids

\* C1: no identifier is transformed, prompted for or submitted more than once
\* in a run, and the step over an invoice whose identifier is already in the
\* seen set calls nothing and changes no counter.
C1_ProcessedAtMostOnce ==
    [][ /\ NoDup(transform_calls') /\ NoDup(prompt_calls') /\ NoDup(submit_calls')
        /\ AtSeenInvoice =>
             /\ idx' = idx + 1
             /\ UNCHANGED << transform_calls, prompt_calls, submit_calls,
                             tallies, processed_stripe_ids >> ]_vars

\* A repeated identifier met the loop: its second occurrence is behind the loop
C1_Witness ==
    \E i \in 1..Len(stripe_invoices) : \E j \in 1..(i - 1) :
        /\ i < idx
        /\ TruthyText(Get(stripe_invoices[i], "id"))
        /\ Get(stripe_invoices[j], "id") = stripe_invoices[i]["id"]
        /\ \E k \in 1..Len(transform_calls) :
               transform_calls[k] = Val(stripe_invoices[i]["id"])

\* C2: a rate-limit signal leaves the cursor and the collected list as they
\* were and the fetch at the same request; wherever the signals fall, the list
\* the fetch ends with is the upstream invoices, each once, in order.
C2_RetrySamePage ==
    [][ /\ rate_limited' # rate_limited =>
             /\ starting_after' = starting_after
             /\ all_paid_invoices_raw' = all_paid_invoices_raw
             /\ pc' = "fetch"
        /\ (pc = "fetch" /\ pc' = "filter") => all_paid_invoices_raw' = upstream
      ]_vars

\* A fetch of several pages ended after a signal on a page past the first
C2_Witness ==
    /\ pc = "filter"
    /\ Len(upstream) > page_cap
    /\ \E i \in 1..Len(rate_limited) : rate_limited[i] # None
    /\ all_paid_invoices_raw = upstream

\* C3 as stated: a creation request is about to be sent only when the line
\* read was exactly the lowercase "y".
C3_OnlyLiteralLowercaseY ==
    pc = "submit" => console_input = Some(<<"y">>)

AcceptingLines == { <<"y">>, <<"Y">> }

\* C3, amended: the prompt's answer leads to submission exactly when the line
\* is "y" or "Y"; any other line is a decline, which sends no request and
\* increments the user-skipped counter only; a request is sent only after such
\* an answer.
C3_ConfirmIgnoresCase ==
    [][ /\ (pc = "confirm" /\ pc' # "confirm") =>
             IF Val(console_input') \in AcceptingLines
             THEN /\ pc' = "submit"
                  /\ UNCHANGED << tallies, submit_calls >>
             ELSE /\ pc' = "loop"
                  /\ skipped_by_user_count' = skipped_by_user_count + 1
                  /\ UNCHANGED << success_count, failure_count, submit_calls >>
        /\ submit_calls' # submit_calls =>
             /\ pc = "submit"
             /\ console_input # None
             /\ Val(console_input) \in AcceptingLines
      ]_vars

\* An uppercase "Y" was read and the request is about to be sent
C3_Witness == pc = "submit" /\ console_input = Some(<<"Y">>)

SetMin(S) == CHOOSE x \in S : \A y \in S : x <= y

\* C4: the extracted tax code is the value of the first eu_vat record that has
\* a value, else the value of the first record that has a value, else absent.
C4_FirstValueKept ==
    called =>
        LET with_value == { i \in 1..Len(customer_tax_ids) :
                              TruthyText(Get(customer_tax_ids[i], "value")) }
            eu_vat == { i \in with_value :
                          Get(customer_tax_ids[i], "type") = Some("eu_vat") }
        IN  IF eu_vat # {}
            THEN nip = customer_tax_ids[SetMin(eu_vat)]["value"]
            ELSE IF with_value # {}
            THEN nip = customer_tax_ids[SetMin(with_value)]["value"]
            ELSE nip = None

\* C5: get_client_details returns for every input, and what it returns never
\* holds a company name together with a first or last name.
C5_ClassifierTotal ==
    called =>
        /\ Val(client_details).kind = "return"
        /\ ~ /\ "client_company_name" \in DOMAIN Val(client_details).value
             /\ { "client_first_name", "client_last_name" }
                    \cap DOMAIN Val(client_details).value # {}

\* The payload of a transformation that returned one
ReturnedPayload == Val(Val(transformed).value)
ReturnsPayload ==
    called /\ Val(transformed).kind = "return" /\ Val(transformed).value # None

\* C6: in every service record of every returned payload, gross_price is
\* net_price plus tax_price.
C6_GrossIsNetPlusTax ==
    ReturnsPayload =>
        \A i \in 1..Len(Val(ReturnedPayload["services"])) :
            LET service == Val(ReturnedPayload["services"])[i]
            IN  /\ { "net_price", "tax_price", "gross_price" } \subseteq DOMAIN service
                /\ Val(service["gross_price"])
                     = Val(service["net_price"]) + Val(service["tax_price"])

NoLineItems(inv) ==
    \/ Get(inv, "lines") = None
    \/ Get(Val(inv["lines"]), "data") \in { None, Some(<<>>) }
NoPaidTimestamp(inv) ==
    \/ Get(inv, "status_transitions") = None
    \/ Get(Val(inv["status_transitions"]), "paid_at") = None

\* C7: a payload is returned only for a nonzero total, a non-empty services
\* list and a set invoice_date; a zero total, no line items or no paid
\* timestamp always give None.
C7_PayloadOnlyWhenValid ==
    called =>
        /\ ReturnsPayload =>
             /\ Get(stripe_invoice, "total") \notin { None, Some(0) }
             /\ Truthy(Get(ReturnedPayload, "services"))
             /\ Get(ReturnedPayload, "invoice_date") # None
        /\ ( \/ Get(stripe_invoice, "total") = Some(0)
             \/ NoLineItems(stripe_invoice)
             \/ NoPaidTimestamp(stripe_invoice) )
           => Val(transformed) = Return(None)

\* What a creation request met is a failure as stated: no response, a status
\* outside 2xx, a body that is no JSON object, or no task reference in it
ResponseFailed(r) ==
    \/ r.network_error
    \/ r.status_code < 200 \/ r.status_code > 299
    \/ r.body.kind # "dict"
    \/ ~TruthyText(Get(r.body.data, "invoice_task_reference_number"))

\* The same with the statuses 400 to 599 (4xx and 5xx) in place of every
\* status outside 2xx
ResponseRejected(r) ==
    \/ r.network_error
    \/ (400 <= r.status_code /\ r.status_code <= 599)
    \/ r.body.kind # "dict"
    \/ ~TruthyText(Get(r.body.data, "invoice_task_reference_number"))

\* The step tallies one failure for the invoice at idx and moves on
TalliedAsFailure ==
    /\ failure_count' = failure_count + 1
    /\ UNCHANGED << success_count, skipped_by_user_count >>
    /\ processed_stripe_ids' =
           processed_stripe_ids \cup { Val(stripe_invoices[idx]["id"]) }
    /\ idx' = idx + 1
    /\ pc' = "loop"
    /\ exit_status' = None

\* C8 as stated: a transformation that yields None, and a creation request
\* that meets a network error, a status outside 2xx, a malformed body or a
\* body without a task reference, each add one to the failed counter only, put
\* the identifier in the seen set and move the loop to the next invoice with
\* the run still going; the summary is reached only past the last invoice.
C8_FailuresDoNotAbort ==
    [][ /\ ( \/ /\ AtFreshInvoice
                /\ transform_stripe_to_infakt(stripe_invoices[idx]) = Return(None)
             \/ /\ pc = "submit" /\ pc' # "submit"
                /\ ResponseFailed(Val(infakt_response')) )
           => TalliedAsFailure
        /\ pc' = "done" => idx' > Len(stripe_invoices)
      ]_vars

\* C8, amended: a transformation that yields None, and a creation request
\* that meets a network error, a 4xx or 5xx status, a malformed body or a body
\* without a task reference, each add one to the failed counter only, put the
\* identifier in the seen set and move the loop to the next invoice with the
\* run still going; every other response, whatever its status (2xx, but also
\* 1xx, 3xx or 600 and above), is tallied as submitted; the summary is reached
\* only past the last invoice.
C8_ErrorStatusFailuresDoNotAbort ==
    [][ /\ ( \/ /\ AtFreshInvoice
                /\ transform_stripe_to_infakt(stripe_invoices[idx]) = Return(None)
             \/ /\ pc = "submit" /\ pc' # "submit"
                /\ ResponseRejected(Val(infakt_response')) )
           => TalliedAsFailure
        /\ ( /\ pc = "submit" /\ pc' # "submit"
             /\ ~ResponseRejected(Val(infakt_response')) )
           => /\ success_count' = success_count + 1
              /\ UNCHANGED << failure_count, skipped_by_user_count >>
              /\ pc' = "loop" /\ exit_status' = None
        /\ pc' = "done" => idx' > Len(stripe_invoices)
      ]_vars

\* A creation request met a 5xx status whose body carried a task reference,
\* was tallied as failed, and another invoice is up next
C8_Witness ==
    /\ pc = "loop" /\ idx <= Len(stripe_invoices)
    /\ infakt_response # None
    /\ Val(infakt_response).status_code = 500
    /\ failure_count >= 1 /\ success_count = 0
    /\ exit_status = None

InRange(inv) ==
    /\ ~NoPaidTimestamp(inv)
    /\ start_ts <= Val(Val(inv["status_transitions"])["paid_at"])
    /\ Val(Val(inv["status_transitions"])["paid_at"]) <= end_ts

NothingProcessed ==
    transform_calls = <<>> /\ prompt_calls = <<>> /\ submit_calls = <<>>

\* C9: after a non-rate-limit error of a page request the run has ended with
\* status 1 and nothing was transformed, prompted for or submitted; nothing is
\* while the fetch is still going; and a completed fetch with no in-range
\* invoice ends the run with status 0.
C9_FetchErrorIsFatal ==
    /\ stripe_error =>
         pc = "exited" /\ exit_status = Some(1) /\ NothingProcessed
    /\ pc \in { "fetch", "filter" } => NothingProcessed
    /\ ( /\ pc \notin { "fetch", "filter" } /\ ~stripe_error
         /\ all_paid_invoices_raw = upstream
         /\ \A i \in 1..Len(upstream) : ~InRange(upstream[i]) )
       => pc = "exited" /\ exit_status = Some(0)

\* The error came after a page had been collected
C9_Witness ==
    stripe_error /\ all_paid_invoices_raw # <<>> /\ exit_status = Some(1)

\* get_client_details returned for a customer with a name and no tax code
ClassifiedByName ==
    /\ called
    /\ ~TruthyText(tax_code)
    /\ Truthy(customer_data)
    /\ Truthy(Get(Val(customer_data), "name"))
    /\ Val(client_details).kind = "return"

ClientName == Val(Val(customer_data)["name"])
ClientFields == Val(client_details).value

IsPrivatePerson(fields) ==
    /\ Get(fields, "client_business_activity_kind") = Some("private_person")
    /\ { "client_first_name", "client_last_name" } \subseteq DOMAIN fields
    /\ "client_company_name" \notin DOMAIN fields
IsCompanyNamed(fields, name) ==
    /\ Get(fields, "client_business_activity_kind") = Some("other_business")
    /\ Get(fields, "client_company_name") = Some(name)
    /\ { "client_first_name", "client_last_name" } \cap DOMAIN fields = {}

Spaces(name) == { i \in 1..Len(name) : name[i] = " " }
ExactlyTwoWords(name) ==
    /\ Cardinality(Spaces(name)) = 1
    /\ name[1] # " " /\ name[Len(name)] # " "

\* C10 as stated: with no tax code and a non-empty name, private person when
\* the name is exactly two words with one space between, company otherwise.
C10_PrivateOnlyForTwoWords ==
    ClassifiedByName =>
        IF ExactlyTwoWords(ClientName)
        THEN IsPrivatePerson(ClientFields)
        ELSE IsCompanyNamed(ClientFields, ClientName)

\* C10, amended: with no tax code and a non-empty name, whenever the call
\* returns: a name with at least one space is a private person whose first
\* name is the text before the first space and whose last name is all the text
\* after it; a name with no space is a company named by the full name.
C10_SplitAtFirstSpace ==
    ClassifiedByName =>
        IF Spaces(ClientName) # {}
        THEN /\ IsPrivatePerson(ClientFields)
             /\ ClientFields["client_first_name"]
                  = Some(SubSeq(ClientName, 1, SetMin(Spaces(ClientName)) - 1))
             /\ ClientFields["client_last_name"]
                  = Some(SubSeq(ClientName, SetMin(Spaces(ClientName)) + 1,
                                Len(ClientName)))
        ELSE IsCompanyNamed(ClientFields, ClientName)

\* A three-word name was classified as a private person
C10_Witness ==
    /\ ClassifiedByName
    /\ ClientName = <<"J", " ", "K", " ", "K">>
    /\ Get(ClientFields, "client_last_name") = Some(<<"K", " ", "K">>)

\* The only line item of the invoice and the service record built from it
TheItem == Val(Val(stripe_invoice["lines"])["data"])[1]
TheService == Val(ReturnedPayload["services"])[1]
ItemQuantityTruthy == TruthyInt(Get(TheItem, "quantity"))

\* q is the quotient a / b rounded down, for b # 0
IsFloorOf(q, a, b) ==
    IF b > 0 THEN q * b <= a /\ a < (q + 1) * b
             ELSE q * b >= a /\ a > (q + 1) * b

\* q is the quotient a / b with its fraction dropped, for b # 0: the
\* remainder is smaller than b in size and never of the sign opposite to a
IsTruncationOf(q, a, b) ==
    LET r == a - q * b
        bb == IF b < 0 THEN -b ELSE b
    IN  /\ -bb < r /\ r < bb
        /\ (a >= 0 => r >= 0)
        /\ (a <= 0 => r <= 0)

\* C11 as stated: unit_net_price is floor(net_price / quantity) when the
\* quantity is nonzero and non-null, and net_price otherwise.
C11_UnitPriceIsFloor ==
    ReturnsPayload =>
        IF ItemQuantityTruthy
        THEN /\ { "net_price", "unit_net_price" } \subseteq DOMAIN TheService
             /\ IsFloorOf(Val(TheService["unit_net_price"]),
                          Val(TheService["net_price"]),
                          Val(TheItem["quantity"]))
        ELSE Get(TheService, "unit_net_price") = Get(TheService, "net_price")

\* C11, amended: unit_net_price is net_price / quantity with the fraction
\* dropped (rounded toward zero) when the quantity is nonzero and non-null, and
\* equals net_price otherwise (both left out when the amount is absent); a
\* line item with such a quantity and no amount raises KeyError, one with a
\* null amount raises TypeError, and no record is produced.
C11_UnitPriceTruncates ==
    called =>
        IF Get(TheItem, "amount") = None
        THEN IF "amount" \in DOMAIN TheItem
             THEN Val(transformed) = Raise("TypeError")
             ELSE IF ItemQuantityTruthy
             THEN Val(transformed) = Raise("KeyError")
             ELSE /\ ReturnsPayload
                  /\ { "net_price", "unit_net_price" } \cap DOMAIN TheService = {}
        ELSE /\ ReturnsPayload
             /\ TheService["net_price"] = TheItem["amount"]
             /\ IF ItemQuantityTruthy
                THEN IsTruncationOf(Val(TheService["unit_net_price"]),
                                    Val(TheItem["amount"]),
                                    Val(TheItem["quantity"]))
                ELSE TheService["unit_net_price"] = TheItem["amount"]

\* A credit line of -7 for a quantity of 2 got the unit price -3, not -4
C11_Witness ==
    /\ ReturnsPayload
    /\ Get(TheItem, "amount") = Some(-7)
    /\ Get(TheItem, "quantity") = Some(2)
    /\ Get(TheService, "unit_net_price") = Some(-3)

\* The paid timestamp of an invoice, None when it has none
PaidTimestamp(inv) ==
    IF Get(inv, "status_transitions") = None
    THEN None
    ELSE Get(Val(inv["status_transitions"]), "paid_at")

\* The invoice was paid from start_ts to end_ts, both included
PaidInTargetRange(inv) ==
    /\ PaidTimestamp(inv) # None
    /\ start_ts <= Val(PaidTimestamp(inv))
    /\ Val(PaidTimestamp(inv)) <= end_ts

\* The filter has returned
FilterReturned == pc \notin { "fetch", "filter" } /\ exit_status # Some(1)

\* C12: what get_paid_invoices returns is the subsequence of the retrieved
\* invoices that have a paid timestamp from start_ts to end_ts, both ends
\* included, in the order retrieved.
C12_ReturnsPaidInRangeInOrder ==
    FilterReturned =>
        stripe_invoices = SelectSeq(all_paid_invoices_raw, PaidInTargetRange)

\* Invoices paid one second after the range, at its last second and at its
\* first second were retrieved; the last two were returned, in that order
C12_Witness ==
    /\ FilterReturned
    /\ Len(all_paid_invoices_raw) = 3
    /\ PaidTimestamp(all_paid_invoices_raw[1]) = Some(end_ts + 1)
    /\ PaidTimestamp(all_paid_invoices_raw[2]) = Some(end_ts)
    /\ PaidTimestamp(all_paid_invoices_raw[3]) = Some(start_ts)
    /\ stripe_invoices = SubSeq(all_paid_invoices_raw, 2, 3)

\* What the summary reports as submitted, skipped by the user and failed
CounterSum == success_count + skipped_by_user_count + failure_count

\* The step ends the loop iteration of the invoice at idx
IterationCompletes ==
    /\ pc \in { "loop", "confirm", "submit" }
    /\ idx \in 1..Len(stripe_invoices)
    /\ idx' = idx + 1

\* The invoice at idx has an identifier not yet in the seen set
FreshIdentifier ==
    /\ TruthyText(Get(stripe_invoices[idx], "id"))
    /\ Val(stripe_invoices[idx]["id"]) \notin processed_stripe_ids

\* Exactly one of the three counters grows, by one
OneCounterIncremented ==
    /\ CounterSum' = CounterSum + 1
    /\ success_count' \in { success_count, success_count + 1 }
    /\ skipped_by_user_count' \in { skipped_by_user_count, skipped_by_user_count + 1 }
    /\ failure_count' \in { failure_count, failure_count + 1 }

\* C13: submitted + user-skipped + failed always equals the size of the
\* seen-identifier set, after every loop iteration and at the summary; an
\* iteration over a fresh identifier increments exactly one counter and adds
\* the identifier to the set, an iteration over an invoice without an
\* identifier or with a seen one changes neither, and the summary changes
\* nothing.
C13_CountersConserved ==
    /\ [](CounterSum = Cardinality(processed_stripe_ids))
    /\ [][ /\ IterationCompletes =>
                IF FreshIdentifier
                THEN /\ OneCounterIncremented
                     /\ processed_stripe_ids' = processed_stripe_ids
                            \cup { Val(stripe_invoices[idx]["id"]) }
                ELSE UNCHANGED << tallies, processed_stripe_ids >>
           /\ pc' = "done" => UNCHANGED << tallies, processed_stripe_ids >>
         ]_vars

\* The summary of a run over three invoices, one of them with a repeated or
\* missing identifier: one submitted, one failed, two identifiers seen
C13_Witness ==
    /\ pc = "done"
    /\ Len(stripe_invoices) = 3
    /\ success_count = 1 /\ failure_count = 1 /\ skipped_by_user_count = 0
    /\ Cardinality(processed_stripe_ids) = 2

====
